---- MODULE Spec2Model ----
(***************************************************************************)
(* Conversation backend of agent_server/main.py: the /ask and /edit        *)
(* request handlers over the conversations, messages and files relations.  *)
(* Every request is a process; an action is one store round trip or the    *)
(* model invocation, so that concurrent requests interleave as the         *)
(* threadpool lets them.                                                   *)
(***************************************************************************)
EXTENDS Integers, Sequences, FiniteSets, TLC

\* ------------------------------------------------------------------ bounds
MaxRequests == 2        \* requests issued in one behaviour
MaxInFlight == 2        \* requests being handled at the same time
MaxClock    == 1        \* readings of datetime.utcnow are 0..MaxClock

Requests == 1..MaxRequests

\* --------------------------------------------------------------- the inputs
\* Optional[T]: <<>> is None, <<x>> is the value x.
None    == <<>>
Some(x) == <<x>>

\* Identifiers are str(uuid.uuid4()): the n-th identifier generated for a
\* relation is written n (n >= 1); the empty string "" is written EmptyStr.
EmptyStr == 0

Personas == {"ask", "edit"}

\* f"{n}" of a small number
Str(n) == <<"0", "1", "2", "3", "4", "5", "6">>[n + 1]

\* Text is a sequence of string pieces; concatenation is \o. The handlers never
\* look into a text, so the texts of different requests are taken different:
\* request r sends UserText(r) and the model answers it with AiText(r).
UserText(r) == <<"user text " \o Str(r)>>
AiText(r)   == <<"ai text " \o Str(r)>>

\* Dict[str, Dict[int, str]] keeps the caller's key order: a sequence of
\* <<file name, <<line number, line>> pairs>>.
FilesAB == << <<"b.py", << <<2, "y">>, <<1, "x">> >> >>, <<"a.py", << <<3, "z">> >> >> >>
FileInputs == {<<>>, FilesAB}

\* tool_calls of the model's response: name and args of each invocation.
EditOp(ls, le, nc) == [line_start |-> ls, line_end |-> le, new_content |-> nc]
GoodEdit   == [name |-> "edit_file_lines",
               args |-> << [file_name |-> Some("a.py"), edits |-> <<EditOp(1, 2, "w")>>] >>]
BadRange   == [name |-> "edit_file_lines",
               args |-> << [file_name |-> Some("a.py"), edits |-> <<EditOp(2, 1, "w")>>] >>]
NoFileName == [name |-> "edit_file_lines",
               args |-> << [file_name |-> None, edits |-> <<EditOp(1, 1, "w")>>] >>]
GoodInsert == [name |-> "insert_code_at_lines",
               args |-> << [file_name |-> Some("b.py"),
                            insertions |-> << [insert_line |-> 1, code |-> "pass"] >>] >>]
ToolCallInputs == {<<>>, <<GoodInsert, GoodEdit, BadRange, NoFileName>>}

\* None, "", and the identifiers of the conversations that earlier requests
\* have created or may create
ConversationIdInputs ==
    {None, Some(EmptyStr)} \cup {Some(2 * i + 1) : i \in 0..(MaxRequests - 1)}

AskRequest(message, conversation_id) ==
    [kind |-> "ask", text |-> message, files |-> <<>>, conversation_id |-> conversation_id]

EditRequest(prompt, fs, conversation_id) ==
    [kind |-> "edit", text |-> prompt, files |-> fs, conversation_id |-> conversation_id]

RequestInputs(r) ==
    {AskRequest(UserText(r), c) : c \in ConversationIdInputs}
    \cup {EditRequest(UserText(r), f, c) : f \in FileInputs, c \in ConversationIdInputs}

NoRequest == AskRequest(<<>>, None)

\* ---------------------------------------------------------------- the state
VARIABLES
    conversations,  \* committed rows of "conversations", in insertion order
    messages,       \* committed rows of "messages", in insertion order
    files,          \* committed rows of "files", in insertion order
    now,            \* the last reading of datetime.utcnow
    pc,             \* position of each request in its handler
    req,            \* the request body
    session,        \* the request's store session: "none", "open", "closed"
    conv,           \* local conv: None or the conversation row
    chat_history,   \* local chat_history: sequence of [role, content]
    ai_response,    \* local ai_response: None or [content, tool_calls]
    user_msg,       \* local user_msg: None or the row, once flushed
    ai_msg,         \* local ai_msg: None or the row, once flushed
    outcome,        \* "none", "ok", "not_found", "upstream_error", "persistence_error"
    response,       \* None or the response body
    last_turn       \* history: None or what the model was given and answered in
                    \* the last request answered with success (kept only by
                    \* TracedSeqSpec)

vars == <<conversations, messages, files, now, pc, req, session, conv, chat_history,
          ai_response, user_msg, ai_msg, outcome, response, last_turn>>

store  == <<conversations, messages, files>>
locals == <<conv, chat_history, ai_response, user_msg, ai_msg>>

SeqToSet(s) == {s[i] : i \in 1..Len(s)}

\* ------------------------------------------------------------- the entities
\* A generator that repeats itself from request to request
Uuid4Repeating(r, k) == k

\* Column default id = str(uuid.uuid4()): the k-th identifier (k = 1, 2) that
\* request r generates for a relation; no two generated identifiers are equal
\* and none is the empty string. Request 0 stands for a request served before
\* the behaviour starts.
Uuid4(r, k) == 2 * r + k

\* The /edit handler creating its conversation with the /ask persona
ConversationAlwaysAsk(id, agent_type, created_at) ==
    [id |-> id, agent_type |-> "ask", created_at |-> created_at]

Conversation(id, agent_type, created_at) ==
    [id |-> id, agent_type |-> agent_type, created_at |-> created_at]

Message(id, conversation_id, sender, content, message_type, created_at) ==
    [id |-> id, conversation_id |-> conversation_id, sender |-> sender,
     content |-> content, created_at |-> created_at, message_type |-> message_type]

\* datetime.utcnow(): the clock does not run backwards between two readings
\* and may not have advanced; readings stop advancing at MaxClock.
UtcNow == {t \in {now, now + 1} : t <= MaxClock}

\* if req.conversation_id:  (None and "" are both falsy)
Truthy(conversation_id) ==
    conversation_id # None /\ conversation_id[1] # EmptyStr

\* The lookup without its persona filter: filter_by(id=...)
GetConversationById(id, persona) ==
    {c \in SeqToSet(conversations) : c.id = id}

\* db.query(Conversation).filter_by(id=..., agent_type=...).first()
GetConversation(id, persona) ==
    {c \in SeqToSet(conversations) : c.id = id /\ c.agent_type = persona}

InFlight == {r \in Requests : pc[r] \notin {"idle", "done"}}

\* The store is durable: the server starts on an empty store, or on the store
\* an earlier /ask request without conversation_id has left.
EarlierConversations == <<Conversation(Uuid4(0, 1), "ask", 0)>>
EarlierMessages ==
    <<Message(Uuid4(0, 1), Uuid4(0, 1), "human", UserText(0), "ask", 0),
      Message(Uuid4(0, 2), Uuid4(0, 1), "ai", AiText(0), "ask", 0)>>

Init ==
    /\ \/ conversations = <<>> /\ messages = <<>>
       \/ conversations = EarlierConversations /\ messages = EarlierMessages
    /\ files = <<>>
    /\ now = 0
    /\ pc = [r \in Requests |-> "idle"]
    /\ req = [r \in Requests |-> NoRequest]
    /\ session = [r \in Requests |-> "none"]
    /\ conv = [r \in Requests |-> None]
    /\ chat_history = [r \in Requests |-> <<>>]
    /\ ai_response = [r \in Requests |-> None]
    /\ user_msg = [r \in Requests |-> None]
    /\ ai_msg = [r \in Requests |-> None]
    /\ outcome = [r \in Requests |-> "none"]
    /\ response = [r \in Requests |-> None]
    /\ last_turn = None

\* The request reaches its handler: Depends(get_db) opens the session. Requests
\* are numbered in the order they arrive.
Begin(r, body) ==
    /\ pc[r] = "idle"
    /\ IF r = 1 THEN TRUE ELSE pc[r - 1] # "idle"
    /\ Cardinality(InFlight) < MaxInFlight
    /\ req' = [req EXCEPT ![r] = body]
    /\ session' = [session EXCEPT ![r] = "open"]

\* The handler is left, by return or by an exception (raise HTTPException, or
\* an error of the model or of the store propagating): its locals are gone.
Leave(r, result, body) ==
    /\ pc' = [pc EXCEPT ![r] = "exit"]
    /\ outcome' = [outcome EXCEPT ![r] = result]
    /\ response' = [response EXCEPT ![r] = body]
    /\ conv' = [conv EXCEPT ![r] = None]
    /\ chat_history' = [chat_history EXCEPT ![r] = <<>>]
    /\ ai_response' = [ai_response EXCEPT ![r] = None]
    /\ user_msg' = [user_msg EXCEPT ![r] = None]
    /\ ai_msg' = [ai_msg EXCEPT ![r] = None]

\* 1. Conversation: fetch ...
ResolveFound(r, body) ==
    /\ Begin(r, body)
    /\ Truthy(body.conversation_id)
    /\ \E c \in GetConversation(body.conversation_id[1], body.kind) :
          conv' = [conv EXCEPT ![r] = Some(c)]
    /\ pc' = [pc EXCEPT ![r] = "history"]
    /\ UNCHANGED <<store, now, chat_history, ai_response, user_msg, ai_msg, outcome,
                   response>>

\* The lookup that misses falling through to the creation
ResolveNotFoundCreates(r, body) ==
    /\ Begin(r, body)
    /\ Truthy(body.conversation_id)
    /\ GetConversation(body.conversation_id[1], body.kind) = {}
    /\ LET c == Conversation(Uuid4(r, 1), body.kind, now) IN
          /\ conversations' = Append(conversations, c)
          /\ conv' = [conv EXCEPT ![r] = Some(c)]
    /\ pc' = [pc EXCEPT ![r] = "history"]
    /\ UNCHANGED <<messages, files, now, chat_history, ai_response, user_msg, ai_msg,
                   outcome, response>>

ResolveNotFound(r, body) ==
    /\ Begin(r, body)
    /\ Truthy(body.conversation_id)
    /\ GetConversation(body.conversation_id[1], body.kind) = {}
    /\ Leave(r, "not_found", None)
    /\ UNCHANGED <<store, now>>

\* The creation run whether or not an id was supplied
CreateConversationAlways(r, body) ==
    /\ Begin(r, body)
    /\ LET c == Conversation(Uuid4(r, 1), body.kind, now) IN
          /\ conversations' = Append(conversations, c)
          /\ conv' = [conv EXCEPT ![r] = Some(c)]
    /\ pc' = [pc EXCEPT ![r] = "history"]
    /\ UNCHANGED <<messages, files, now, chat_history, ai_response, user_msg, ai_msg,
                   outcome, response>>

\* ... or create: db.add(conv); db.commit(); db.refresh(conv). created_at is the
\* clock as the last reading left it.
CreateConversation(r, body) ==
    /\ Begin(r, body)
    /\ ~Truthy(body.conversation_id)
    /\ LET c == Conversation(Uuid4(r, 1), body.kind, now) IN
          /\ conversations' = Append(conversations, c)
          /\ conv' = [conv EXCEPT ![r] = Some(c)]
    /\ pc' = [pc EXCEPT ![r] = "history"]
    /\ UNCHANGED <<messages, files, now, chat_history, ai_response, user_msg, ai_msg,
                   outcome, response>>

CreateConversationFails(r, body) ==
    /\ Begin(r, body)
    /\ ~Truthy(body.conversation_id)
    /\ Leave(r, "persistence_error", None)
    /\ UNCHANGED <<store, now>>

\* ------------------------------------------------------- history and prompt
SystemMessage(persona) ==
    [role |-> "system",
     content |-> IF persona = "ask" THEN <<"ASK_SYSTEM_PROMPT">> ELSE <<"EDIT_SYSTEM_PROMPT">>]
HumanMessage(content) == [role |-> "human", content |-> content]
AIMessage(content)    == [role |-> "ai", content |-> content]

\* cls = HumanMessage if msg.sender == "human" else AIMessage
HistoryMessage(msg) ==
    IF msg.sender = "human" THEN HumanMessage(msg.content) ELSE AIMessage(msg.content)

\* .order_by(Message.created_at).all() over the rows of one conversation: the
\* row positions in ascending created_at; the store returns rows of equal
\* created_at in an order of its own choosing, so every such order is a result.
RECURSIVE OrderByCreatedAt(_)
OrderByCreatedAt(S) ==
    IF S = {} THEN {<<>>}
    ELSE UNION { {<<i>> \o rest : rest \in OrderByCreatedAt(S \ {i})} :
                 i \in {j \in S : \A k \in S :
                            messages[j].created_at <= messages[k].created_at} }

ListMessages(conversation_id) ==
    OrderByCreatedAt({i \in 1..Len(messages) : messages[i].conversation_id = conversation_id})

\* The line-map items by descending line number
RECURSIVE SortedDescending(_)
SortedDescending(items) ==
    IF items = {} THEN <<>>
    ELSE LET hi == CHOOSE p \in items : \A q \in items : p[1] >= q[1]
         IN  <<hi>> \o SortedDescending(items \ {hi})

\* sorted(fcontent.items()): ascending line number (the keys of a dict differ)
RECURSIVE Sorted(_)
Sorted(items) ==
    IF items = {} THEN <<>>
    ELSE LET lo == CHOOSE p \in items : \A q \in items : p[1] <= q[1]
         IN  <<lo>> \o Sorted(items \ {lo})

\* sep.join(parts) for a sequence of texts
RECURSIVE Join(_, _)
Join(sep, parts) ==
    IF parts = <<>> THEN <<>>
    ELSE IF Len(parts) = 1 THEN parts[1]
    ELSE parts[1] \o <<sep>> \o Join(sep, Tail(parts))

\* f"{fname}:\n" + "\n".join(f"{ln}: {content}" for ln, content in sorted(...))
FileLines(f) ==
    LET items == Sorted(SeqToSet(f[2]))
    IN  <<f[1], ":\n">>
        \o Join("\n", [i \in 1..Len(items) |-> <<Str(items[i][1]), ": ", items[i][2]>>])

FileLinesPrompt(fs) ==
    IF fs # <<>> THEN Join("\n", [i \in 1..Len(fs) |-> FileLines(fs[i])]) ELSE <<>>

\* The new user turn: req.message in ask; in edit req.prompt, followed by the
\* file block when that is not empty.
Prompt(body) ==
    IF body.kind = "ask" THEN body.text
    ELSE IF FileLinesPrompt(body.files) # <<>>
         THEN body.text \o <<"\n\nFiles:\n">> \o FileLinesPrompt(body.files)
         ELSE body.text

\* 2. Fetch history, 3. add user input
FetchHistory(r) ==
    /\ pc[r] = "history"
    /\ \E msgs \in ListMessages(conv[r][1].id) :
          chat_history' = [chat_history EXCEPT ![r] =
              <<SystemMessage(req[r].kind)>>
              \o [k \in 1..Len(msgs) |-> HistoryMessage(messages[msgs[k]])]
              \o <<HumanMessage(Prompt(req[r]))>>]
    /\ pc' = [pc EXCEPT ![r] = "invoke"]
    /\ UNCHANGED <<store, now, req, session, conv, ai_response, user_msg, ai_msg,
                   outcome, response>>

\* 4. Run agent: model.invoke(chat_history). The ask model has no tools bound.
Invoke(r, content, tool_calls) ==
    /\ pc[r] = "invoke"
    /\ req[r].kind = "ask" => tool_calls = <<>>
    /\ ai_response' = [ai_response EXCEPT ![r] =
                          Some([content |-> content, tool_calls |-> tool_calls])]
    /\ pc' = [pc EXCEPT ![r] = "persist"]
    /\ UNCHANGED <<store, now, req, session, conv, chat_history, user_msg, ai_msg,
                   outcome, response>>

InvokeFails(r) ==
    /\ pc[r] = "invoke"
    /\ Leave(r, "upstream_error", None)
    /\ UNCHANGED <<store, now, req, session>>

\* json.loads(json.dumps(tool_calls, default=str)) if tool_calls else None
JsonValue(call) == [name |-> call.name, args |-> call.args]
\* The payloads serialized last to first
ToolCallsJsonReversed(tool_calls) ==
    IF tool_calls # <<>>
    THEN Some([i \in 1..Len(tool_calls) |-> JsonValue(tool_calls[Len(tool_calls) + 1 - i])])
    ELSE None

ToolCallsJson(tool_calls) ==
    IF tool_calls # <<>>
    THEN Some([i \in 1..Len(tool_calls) |-> JsonValue(tool_calls[i])])
    ELSE None

AskResponse(conversation_id, message) ==
    [conversation_id |-> conversation_id, message |-> message]

\* The dict returned by edit_endpoint
EditResult(conversation_id, message, tool_calls_json) ==
    [conversation_id |-> conversation_id, message |-> message,
     tool_calls |-> tool_calls_json]

\* The commit writing the conversation's rows anew: the turn alone
RECURSIVE RowsOfOthers(_, _)
RowsOfOthers(rows, conversation_id) ==
    IF rows = <<>> THEN <<>>
    ELSE (IF Head(rows).conversation_id = conversation_id THEN <<>> ELSE <<Head(rows)>>)
         \o RowsOfOthers(Tail(rows), conversation_id)

CommitTurnLastWriterWins(r) ==
    /\ pc[r] = "persist"
    /\ \E t1 \in UtcNow : \E t2 \in {t \in {t1, t1 + 1} : t <= MaxClock} :
          LET u == Message(Uuid4(r, 1), conv[r][1].id, "human", Prompt(req[r]),
                           req[r].kind, t1)
              m == Message(Uuid4(r, 2), conv[r][1].id, "ai", ai_response[r][1].content,
                           req[r].kind, t2) IN
          /\ now' = t2
          /\ messages' = RowsOfOthers(messages, conv[r][1].id) \o <<u, m>>
          /\ IF req[r].kind = "ask"
             THEN Leave(r, "ok", Some(AskResponse(conv[r][1].id, ai_response[r][1].content)))
             ELSE /\ pc' = [pc EXCEPT ![r] = "files"]
                  /\ user_msg' = [user_msg EXCEPT ![r] = Some(u)]
                  /\ ai_msg' = [ai_msg EXCEPT ![r] = Some(m)]
                  /\ UNCHANGED <<conv, chat_history, ai_response, outcome, response>>
    /\ UNCHANGED <<conversations, files, req, session>>

\* The commit replacing the rows of the conversation's table by the new turn
CommitTurnOverwrites(r) ==
    /\ pc[r] = "persist"
    /\ \E t1 \in UtcNow : \E t2 \in {t \in {t1, t1 + 1} : t <= MaxClock} :
          LET u == Message(Uuid4(r, 1), conv[r][1].id, "human", Prompt(req[r]),
                           req[r].kind, t1)
              m == Message(Uuid4(r, 2), conv[r][1].id, "ai", ai_response[r][1].content,
                           req[r].kind, t2) IN
          /\ now' = t2
          /\ messages' = <<u, m>>
          /\ IF req[r].kind = "ask"
             THEN Leave(r, "ok", Some(AskResponse(conv[r][1].id, ai_response[r][1].content)))
             ELSE /\ pc' = [pc EXCEPT ![r] = "files"]
                  /\ user_msg' = [user_msg EXCEPT ![r] = Some(u)]
                  /\ ai_msg' = [ai_msg EXCEPT ![r] = Some(m)]
                  /\ UNCHANGED <<conv, chat_history, ai_response, outcome, response>>
    /\ UNCHANGED <<conversations, files, req, session>>

\* 5. Store both messages: db.add_all([user_msg, ai_msg]); db.commit(). The
\* flush inserts user_msg, then ai_msg, each stamped by its own reading of the
\* clock. /ask returns its response here; /edit goes on to the files.
CommitTurn(r) ==
    /\ pc[r] = "persist"
    /\ \E t1 \in UtcNow : \E t2 \in {t \in {t1, t1 + 1} : t <= MaxClock} :
          LET u == Message(Uuid4(r, 1), conv[r][1].id, "human", Prompt(req[r]),
                           req[r].kind, t1)
              m == Message(Uuid4(r, 2), conv[r][1].id, "ai", ai_response[r][1].content,
                           req[r].kind, t2) IN
          /\ now' = t2
          /\ messages' = messages \o <<u, m>>
          /\ IF req[r].kind = "ask"
             THEN Leave(r, "ok", Some(AskResponse(conv[r][1].id, ai_response[r][1].content)))
             ELSE /\ pc' = [pc EXCEPT ![r] = "files"]
                  /\ user_msg' = [user_msg EXCEPT ![r] = Some(u)]
                  /\ ai_msg' = [ai_msg EXCEPT ![r] = Some(m)]
                  /\ UNCHANGED <<conv, chat_history, ai_response, outcome, response>>
    /\ UNCHANGED <<conversations, files, req, session>>

\* The commit failing once the row of user_msg is in the store
CommitTurnFailsAfterUserMsg(r) ==
    /\ pc[r] = "persist"
    /\ messages' = Append(messages, Message(Uuid4(r, 1), conv[r][1].id, "human",
                                            Prompt(req[r]), req[r].kind, now))
    /\ Leave(r, "persistence_error", None)
    /\ UNCHANGED <<conversations, files, now, req, session>>

\* The flush or the commit fails: the transaction is rolled back.
CommitTurnFails(r) ==
    /\ pc[r] = "persist"
    /\ Leave(r, "persistence_error", None)
    /\ UNCHANGED <<store, now, req, session>>

\* file_content is a JSON column: the keys of the line map are stored as strings
JsonObject(fcontent) == [i \in 1..Len(fcontent) |-> <<Str(fcontent[i][1]), fcontent[i][2]>>]

File(id, message_id, file_content, file_name) ==
    [id |-> id, message_id |-> message_id, file_content |-> JsonObject(file_content),
     file_name |-> file_name]

\* The files attached to user_msg instead of ai_msg
PersistFilesUnderUserMsg(r) ==
    /\ pc[r] = "files"
    /\ files' = files \o [i \in 1..Len(req[r].files) |->
                    File(Uuid4(r, i), user_msg[r][1].id, req[r].files[i][2], req[r].files[i][1])]
    /\ Leave(r, "ok", Some(EditResult(conv[r][1].id, ai_response[r][1].content,
                                      ToolCallsJson(ai_response[r][1].tool_calls))))
    /\ UNCHANGED <<conversations, messages, now, req, session>>

\* 6. ... and files: one File per entry of returned_files = req.files, owned by
\* ai_msg; db.commit(); return the dict.
PersistFiles(r) ==
    /\ pc[r] = "files"
    /\ files' = files \o [i \in 1..Len(req[r].files) |->
                    File(Uuid4(r, i), ai_msg[r][1].id, req[r].files[i][2], req[r].files[i][1])]
    /\ Leave(r, "ok", Some(EditResult(conv[r][1].id, ai_response[r][1].content,
                                      ToolCallsJson(ai_response[r][1].tool_calls))))
    /\ UNCHANGED <<conversations, messages, now, req, session>>

\* The failure of the second commit swallowed: the handler returns its dict
PersistFilesFailsSilently(r) ==
    /\ pc[r] = "files"
    /\ req[r].files # <<>>
    /\ Leave(r, "ok", Some(EditResult(conv[r][1].id, ai_response[r][1].content,
                                      ToolCallsJson(ai_response[r][1].tool_calls))))
    /\ UNCHANGED <<store, now, req, session>>

\* The second commit fails (it has rows to write only when files were supplied).
PersistFilesFails(r) ==
    /\ pc[r] = "files"
    /\ req[r].files # <<>>
    /\ Leave(r, "persistence_error", None)
    /\ UNCHANGED <<store, now, req, session>>

\* The generator left without db.close()
CloseLeaks(r) ==
    /\ pc[r] = "exit"
    /\ pc' = [pc EXCEPT ![r] = "done"]
    /\ req' = [req EXCEPT ![r] = NoRequest]
    /\ outcome' = [outcome EXCEPT ![r] = "none"]
    /\ response' = [response EXCEPT ![r] = None]
    /\ UNCHANGED <<store, now, locals, session>>

\* get_db: finally db.close(), once the handler has returned or raised and the
\* response is sent.
Close(r) ==
    /\ pc[r] = "exit"
    /\ pc' = [pc EXCEPT ![r] = "done"]
    /\ session' = [session EXCEPT ![r] = "closed"]
    /\ req' = [req EXCEPT ![r] = NoRequest]
    /\ outcome' = [outcome EXCEPT ![r] = "none"]
    /\ response' = [response EXCEPT ![r] = None]
    /\ UNCHANGED <<store, now, locals>>

Next ==
    \E r \in Requests :
        \/ \E body \in RequestInputs(r) : ResolveFound(r, body) /\ UNCHANGED last_turn
        \/ \E body \in RequestInputs(r) : ResolveNotFound(r, body) /\ UNCHANGED last_turn
        \/ \E body \in RequestInputs(r) : CreateConversation(r, body) /\ UNCHANGED last_turn
        \/ \E body \in RequestInputs(r) : CreateConversationFails(r, body) /\ UNCHANGED last_turn
        \/ FetchHistory(r) /\ UNCHANGED last_turn
        \/ \E tool_calls \in ToolCallInputs : Invoke(r, AiText(r), tool_calls) /\ UNCHANGED last_turn
        \/ InvokeFails(r) /\ UNCHANGED last_turn
        \/ CommitTurn(r) /\ UNCHANGED last_turn
        \/ CommitTurnFails(r) /\ UNCHANGED last_turn
        \/ PersistFiles(r) /\ UNCHANGED last_turn
        \/ PersistFilesFails(r) /\ UNCHANGED last_turn
        \/ Close(r) /\ UNCHANGED last_turn

Spec == Init /\ [][Next]_vars

\* One request at a time: a request arrives only when no other is in flight.
SeqNext ==
    \E r \in Requests :
        \/ InFlight = {} /\ \E body \in RequestInputs(r) : ResolveFound(r, body) /\ UNCHANGED last_turn
        \/ InFlight = {} /\ \E body \in RequestInputs(r) : ResolveNotFound(r, body) /\ UNCHANGED last_turn
        \/ InFlight = {} /\ \E body \in RequestInputs(r) : CreateConversation(r, body) /\ UNCHANGED last_turn
        \/ InFlight = {} /\ \E body \in RequestInputs(r) : CreateConversationFails(r, body) /\ UNCHANGED last_turn
        \/ FetchHistory(r) /\ UNCHANGED last_turn
        \/ \E tool_calls \in ToolCallInputs : Invoke(r, AiText(r), tool_calls) /\ UNCHANGED last_turn
        \/ InvokeFails(r) /\ UNCHANGED last_turn
        \/ CommitTurn(r) /\ UNCHANGED last_turn
        \/ CommitTurnFails(r) /\ UNCHANGED last_turn
        \/ PersistFiles(r) /\ UNCHANGED last_turn
        \/ PersistFilesFails(r) /\ UNCHANGED last_turn
        \/ Close(r) /\ UNCHANGED last_turn

SeqSpec == Init /\ [][SeqNext]_vars

\* FastAPI resumes the get_db generator of every request whose handler has
\* returned or raised: the finally block is always run.
FairSeqSpec == SeqSpec /\ \A r \in Requests : WF_vars(Close(r) /\ UNCHANGED last_turn)

\* Requests on one conversation, overlapping: every request supplies the id of
\* the conversation of the first one (the earlier ask conversation, or the
\* conversation the first request has created). The model answers with text
\* alone: tool invocations are never stored.
OverlapInputs(r) ==
    {body \in RequestInputs(r) :
        IF r = 1 THEN body.conversation_id \in {None, Some(Uuid4(0, 1))}
        ELSE body.conversation_id \in {Some(Uuid4(0, 1)), Some(Uuid4(1, 1))}}

OverlapNext ==
    \E r \in Requests :
        \/ \E body \in OverlapInputs(r) : ResolveFound(r, body) /\ UNCHANGED last_turn
        \/ \E body \in OverlapInputs(r) : ResolveNotFound(r, body) /\ UNCHANGED last_turn
        \/ \E body \in OverlapInputs(r) : CreateConversation(r, body) /\ UNCHANGED last_turn
        \/ FetchHistory(r) /\ UNCHANGED last_turn
        \/ Invoke(r, AiText(r), <<>>) /\ UNCHANGED last_turn
        \/ InvokeFails(r) /\ UNCHANGED last_turn
        \/ CommitTurn(r) /\ UNCHANGED last_turn
        \/ CommitTurnFails(r) /\ UNCHANGED last_turn
        \/ PersistFiles(r) /\ UNCHANGED last_turn
        \/ PersistFilesFails(r) /\ UNCHANGED last_turn
        \/ Close(r) /\ UNCHANGED last_turn

OverlapSpec == Init /\ [][OverlapNext]_vars

\* Sequential requests, with the history variable kept: the step that answers
\* a request with success records the messages the model was given
\* (chat_history) and the text of its answer (ai_response.content).
TurnOf(r) ==
    [conversation_id |-> conv[r][1].id, input |-> chat_history[r],
     output |-> ai_response[r][1].content]

TracedSeqNext ==
    \E r \in Requests :
        \/ InFlight = {} /\ \E body \in RequestInputs(r) : ResolveFound(r, body) /\ UNCHANGED last_turn
        \/ InFlight = {} /\ \E body \in RequestInputs(r) : ResolveNotFound(r, body) /\ UNCHANGED last_turn
        \/ InFlight = {} /\ \E body \in RequestInputs(r) : CreateConversation(r, body) /\ UNCHANGED last_turn
        \/ InFlight = {} /\ \E body \in RequestInputs(r) : CreateConversationFails(r, body) /\ UNCHANGED last_turn
        \/ FetchHistory(r) /\ UNCHANGED last_turn
        \/ \E tool_calls \in ToolCallInputs : Invoke(r, AiText(r), tool_calls) /\ UNCHANGED last_turn
        \/ InvokeFails(r) /\ UNCHANGED last_turn
        \/ CommitTurn(r) /\ last_turn' = (IF req[r].kind = "ask" THEN Some(TurnOf(r)) ELSE last_turn)
        \/ CommitTurnFails(r) /\ UNCHANGED last_turn
        \/ PersistFiles(r) /\ last_turn' = Some(TurnOf(r))
        \/ PersistFilesFails(r) /\ UNCHANGED last_turn
        \/ Close(r) /\ UNCHANGED last_turn

TracedSeqSpec == Init /\ [][TracedSeqNext]_vars

TypeOK ==
    /\ pc \in [Requests -> {"idle", "history", "invoke", "persist", "files", "exit", "done"}]
    /\ now \in 0..MaxClock
    /\ session \in [Requests -> {"none", "open", "closed"}]
    /\ outcome \in [Requests -> {"none", "ok", "not_found", "upstream_error",
                                 "persistence_error"}]

\* ------------------------------------------------------------- observations
\* The request r is handling, on the step that takes it in and afterwards.
Arrives(r)  == pc[r] = "idle" /\ pc'[r] # "idle"
Steps(r)    == pc'[r] # pc[r]
Handled(r)  == pc[r] \notin {"idle", "done"}
Returned(r) == pc[r] = "exit"

\* The rows whose identifiers request r generated.
ConversationsOf(r) == {c \in SeqToSet(conversations) : c.id = Uuid4(r, 1)}
MessagesOf(r)      == {m \in SeqToSet(messages) : m.id \in {Uuid4(r, 1), Uuid4(r, 2)}}
FilesOf(r)         == {f \in SeqToSet(files) : f.id \in {Uuid4(r, 1), Uuid4(r, 2)}}

ConversationIds == {c.id : c \in SeqToSet(conversations)}
MessagesIn(id, sender) ==
    {i \in 1..Len(messages) : messages[i].conversation_id = id /\ messages[i].sender = sender}

\* A conversation_id was supplied / a non-empty one was.
Supplied(body)         == body.conversation_id # None
SuppliedNonEmpty(body) == Supplied(body) /\ body.conversation_id # Some(EmptyStr)

\* ------------------------------------------------------------------- claims
\* C1. Persona isolation: a request that supplies the id of a conversation of
\* the other persona ends not-found (an edit request on a conversation created
\* by ask, an ask request on one created by edit); a request that supplied an
\* id works on a conversation only if that conversation has the supplied id and
\* the request's persona, and only such a request is answered with success.
PersonaIsolation ==
    \A r \in Requests : (Handled(r) /\ SuppliedNonEmpty(req[r])) =>
        /\ (\E c \in SeqToSet(conversations) :
                c.id = req[r].conversation_id[1] /\ c.agent_type # req[r].kind)
           => (Returned(r) /\ outcome[r] = "not_found")
        /\ conv[r] # None =>
              /\ conv[r][1].id = req[r].conversation_id[1]
              /\ conv[r][1].agent_type = req[r].kind
              /\ conv[r][1] \in SeqToSet(conversations)
        /\ outcome[r] = "ok" =>
              /\ response[r][1].conversation_id = req[r].conversation_id[1]
              /\ \E c \in SeqToSet(conversations) :
                    c.id = req[r].conversation_id[1] /\ c.agent_type = req[r].kind

\* An edit request was answered not-found on the id of an ask conversation.
PersonaIsolationWitness ==
    \E r \in Requests :
        /\ Returned(r) /\ req[r].kind = "edit" /\ outcome[r] = "not_found"
        /\ \E c \in SeqToSet(conversations) :
              c.id = req[r].conversation_id[1] /\ c.agent_type = "ask"

\* C2. A request whose model invocation failed has persisted nothing: no
\* conversation, message or file of the store was written by it.
NoPersistenceOnModelFailure ==
    \A r \in Requests : outcome[r] = "upstream_error" =>
        ConversationsOf(r) = {} /\ MessagesOf(r) = {} /\ FilesOf(r) = {}

\* C3. In every committed state of the store a request has persisted all of its
\* writes (the conversation it had to create, its human and AI messages, one
\* file per supplied file) or none of them.
RequestWritesAtomic ==
    \A r \in Requests : Handled(r) =>
        \/ ConversationsOf(r) = {} /\ MessagesOf(r) = {} /\ FilesOf(r) = {}
        \/ /\ ~Truthy(req[r].conversation_id) => ConversationsOf(r) # {}
           /\ Cardinality(MessagesOf(r)) = 2
           /\ Cardinality(FilesOf(r)) = Len(req[r].files)

\* C4. The response of a successful edit request has a files field holding the
\* file mapping of the request.
EditResponseEchoesFiles ==
    \A r \in Requests : (Returned(r) /\ req[r].kind = "edit" /\ outcome[r] = "ok") =>
        /\ "files" \in DOMAIN response[r][1]
        /\ response[r][1].files = req[r].files

\* The turns stored under a conversation, in the order they were inserted,
\* each with the role of its sender.
StoredTurns(id) ==
    LET rows == SelectSeq(messages, LAMBDA m : m.conversation_id = id)
    IN  [i \in 1..Len(rows) |-> [role |-> rows[i].sender, content |-> rows[i].content]]

\* C5. History assembly is order-preserving: the sequence assembled for a
\* request is the system prompt, then the stored turns of the conversation in
\* insertion order with the roles of their senders, then the new user turn,
\* also when turns carry equal creation timestamps.
HistoryOrderPreserved ==
    \A r \in Requests : pc[r] \in {"invoke", "persist"} =>
        chat_history[r] = <<SystemMessage(req[r].kind)>>
                          \o StoredTurns(conv[r][1].id)
                          \o <<[role |-> "human", content |-> Prompt(req[r])]>>

\* The request body of the request that takes a step.
BodyOf(r) == IF pc[r] = "idle" THEN req'[r] ELSE req[r]

Resolves(r, body) ==
    \A c \in SeqToSet(conversations) :
        (c.id = body.conversation_id[1] /\ c.agent_type = body.kind)
        => (pc'[r] = "history" /\ conv'[r] = Some(c))

\* C6 as stated. A request that supplies the id of an existing conversation of
\* its persona resolves to that conversation, and no step of a request that
\* supplies an id changes the conversations relation.
ResolutionIdempotentForAnyId ==
    [][\A r \in Requests : (Steps(r) /\ Supplied(BodyOf(r))) =>
          /\ conversations' = conversations
          /\ Arrives(r) => Resolves(r, BodyOf(r))]_vars

\* C6 as amended: the same for a request that supplies a non-empty id.
ResolutionIdempotent ==
    [][\A r \in Requests : (Steps(r) /\ SuppliedNonEmpty(BodyOf(r))) =>
          /\ conversations' = conversations
          /\ Arrives(r) => Resolves(r, BodyOf(r))]_vars

\* A request works on the conversation whose id it supplied, after the request
\* before it wrote its turn under that same conversation without creating it.
ResolutionIdempotentWitness ==
    \E r \in Requests : r + 1 \in Requests /\
        /\ SuppliedNonEmpty(req[r + 1]) /\ conv[r + 1] # None
        /\ ConversationsOf(r) = {}
        /\ \E m \in MessagesOf(r) : m.conversation_id = conv[r + 1][1].id
        /\ Cardinality({i \in 1..Len(conversations) :
                          conversations[i].id = conv[r + 1][1].id}) = 1

\* C7. A successful ask request without conversation_id creates one
\* conversation, whose id is not empty and is the id of no conversation that
\* existed, and no other; its response carries that id, and on its return one
\* human message with the request's text and one AI message with the response's
\* text are stored under that id.
AskCreatesConversationAndTurn ==
    /\ [][\A r \in Requests :
            /\ (Arrives(r) /\ pc'[r] = "history" /\ ~Supplied(req'[r]) /\ req'[r].kind = "ask")
               => /\ conversations' = Append(conversations, conv'[r][1])
                  /\ conv'[r][1].id \notin ConversationIds \cup {EmptyStr}
            /\ (Steps(r) /\ ~Arrives(r)) => conversations' = conversations
            /\ (Steps(r) /\ ~Arrives(r) /\ pc'[r] # "exit") => conv'[r] = conv[r]
            /\ (Steps(r) /\ outcome'[r] = "ok" /\ req[r].kind = "ask") =>
                  /\ response'[r][1].conversation_id = conv[r][1].id
                  /\ response'[r][1].message = ai_response[r][1].content]_vars
    /\ [](\A r \in Requests :
            (Returned(r) /\ outcome[r] = "ok" /\ ~Supplied(req[r]) /\ req[r].kind = "ask") =>
                LET id == response[r][1].conversation_id
                    hs == MessagesIn(id, "human")
                    as == MessagesIn(id, "ai") IN
                /\ id # EmptyStr
                /\ Cardinality({i \in 1..Len(conversations) : conversations[i].id = id}) = 1
                /\ Cardinality(hs) = 1 /\ \A i \in hs : messages[i].content = req[r].text
                /\ Cardinality(as) = 1
                /\ \A i \in as : messages[i].content = response[r][1].message)

\* An ask request without conversation_id has been answered with success while
\* another conversation existed.
AskCreatesConversationWitness ==
    \E r \in Requests :
        /\ Returned(r) /\ outcome[r] = "ok" /\ ~Supplied(req[r]) /\ req[r].kind = "ask"
        /\ Len(conversations) >= 2

Unresolvable(body) == GetConversation(body.conversation_id[1], body.kind) = {}

\* C8 as stated. A request that supplies a conversation_id resolving to no
\* conversation of its persona ends not-found on arrival, leaving the store
\* unchanged; a request ended not-found has no response body, has invoked no
\* model and has written no row.
UnresolvableIdRejectedForAnyId ==
    /\ [][\A r \in Requests :
            (Arrives(r) /\ Supplied(req'[r]) /\ Unresolvable(req'[r])) =>
                /\ pc'[r] = "exit" /\ outcome'[r] = "not_found"
                /\ UNCHANGED store]_vars
    /\ [](\A r \in Requests : outcome[r] = "not_found" =>
            /\ Returned(r) /\ response[r] = None /\ ai_response[r] = None
            /\ ConversationsOf(r) = {} /\ MessagesOf(r) = {} /\ FilesOf(r) = {})

\* C8 as amended: the same for a request that supplies a non-empty id.
UnresolvableIdRejected ==
    /\ [][\A r \in Requests :
            (Arrives(r) /\ SuppliedNonEmpty(req'[r]) /\ Unresolvable(req'[r])) =>
                /\ pc'[r] = "exit" /\ outcome'[r] = "not_found"
                /\ UNCHANGED store]_vars
    /\ [](\A r \in Requests : outcome[r] = "not_found" =>
            /\ Returned(r) /\ response[r] = None /\ ai_response[r] = None
            /\ ConversationsOf(r) = {} /\ MessagesOf(r) = {} /\ FilesOf(r) = {})

\* An edit request with files was answered not-found.
UnresolvableIdRejectedWitness ==
    \E r \in Requests :
        /\ Returned(r) /\ outcome[r] = "not_found"
        /\ req[r].kind = "edit" /\ req[r].files # <<>>

ValidBatch(batch) ==
    /\ batch.file_name # None
    /\ "edits" \in DOMAIN batch =>
          \A i \in 1..Len(batch.edits) : batch.edits[i].line_start <= batch.edits[i].line_end

\* C9. Every tool-call payload in the response of an edit request is a valid
\* batch: it names its file and every edit has line_start <= line_end.
AcceptedToolCallsValid ==
    \A r \in Requests :
        (Returned(r) /\ outcome[r] = "ok" /\ req[r].kind = "edit"
         /\ response[r][1].tool_calls # None) =>
            \A i \in 1..Len(response[r][1].tool_calls[1]) :
                \A k \in 1..Len(response[r][1].tool_calls[1][i].args) :
                    ValidBatch(response[r][1].tool_calls[1][i].args[k])

\* C10. Every message references exactly one stored conversation and carries
\* that conversation's persona; a conversation is created with the persona of
\* the request that creates it, and a stored conversation keeps its persona.
PersonaFixedAndMirrored ==
    /\ [](\A i \in 1..Len(messages) :
            /\ Cardinality({j \in 1..Len(conversations) :
                              conversations[j].id = messages[i].conversation_id}) = 1
            /\ \A j \in 1..Len(conversations) :
                  conversations[j].id = messages[i].conversation_id
                  => messages[i].message_type = conversations[j].agent_type)
    /\ [][/\ Len(conversations') >= Len(conversations)
          /\ \A j \in 1..Len(conversations) :
                /\ conversations'[j].id = conversations[j].id
                /\ conversations'[j].agent_type = conversations[j].agent_type
          /\ \A r \in Requests : (Arrives(r) /\ conversations' # conversations) =>
                /\ Len(conversations') = Len(conversations) + 1
                /\ conversations'[Len(conversations')].agent_type = req'[r].kind]_vars

\* Messages of both personas are stored, an edit one under a conversation that
\* an edit request created.
PersonaFixedAndMirroredWitness ==
    /\ \E i \in 1..Len(messages) : messages[i].message_type = "ask"
    /\ \E i \in 1..Len(messages) : \E j \in 1..Len(conversations) :
          /\ messages[i].message_type = "edit"
          /\ conversations[j].id = messages[i].conversation_id
          /\ conversations[j].agent_type = "edit"

\* C11. A request is answered with success only when every write it performs
\* is committed: its conversation if it had to create one, its two messages
\* and, in edit, one file per supplied file; a request that ended otherwise
\* (a commit failed after the model had answered) has no response body.
SuccessOnlyAfterCommit ==
    \A r \in Requests : Returned(r) =>
        /\ outcome[r] = "ok" =>
              /\ response[r] # None
              /\ ~Truthy(req[r].conversation_id) => ConversationsOf(r) # {}
              /\ Cardinality(MessagesOf(r)) = 2
              /\ Cardinality(FilesOf(r)) = Len(req[r].files)
        /\ outcome[r] # "ok" => response[r] = None

\* The commit of the files failed after the model had answered and the turn
\* was committed: the request ended in the persistence failure.
SuccessOnlyAfterCommitWitness ==
    \E r \in Requests :
        /\ Returned(r) /\ outcome[r] = "persistence_error"
        /\ MessagesOf(r) # {} /\ FilesOf(r) = {} /\ req[r].files # <<>>

\* C12. Turns are stored in pairs: under every conversation id the store holds
\* as many human messages as AI messages.
TurnsStoredInPairs ==
    \A id \in ConversationIds \cup {messages[i].conversation_id : i \in 1..Len(messages)} :
        Cardinality(MessagesIn(id, "human")) = Cardinality(MessagesIn(id, "ai"))

\* A commit failed, and the model failed, on a conversation that holds turns.
TurnsStoredInPairsWitness ==
    \E r \in Requests :
        /\ Returned(r) /\ outcome[r] \in {"persistence_error", "upstream_error"}
        /\ Truthy(req[r].conversation_id)
        /\ Cardinality(MessagesIn(req[r].conversation_id[1], "human")) >= 2

\* A stored line map read back with its keys as numbers.
IntOf(s) == CHOOSE n \in 0..6 : Str(n) = s
LineMapOf(file_content) ==
    [i \in 1..Len(file_content) |-> <<IntOf(file_content[i][1]), file_content[i][2]>>]

\* C13. After a successful edit request the store holds one file per supplied
\* file name, with the supplied line map, owned by the AI message of that
\* request; every stored file references one stored message, whose sender is
\* ai and whose persona is edit; no step of an ask request changes the files.
FileSnapshotsOwned ==
    /\ [](\A r \in Requests :
            (Returned(r) /\ outcome[r] = "ok" /\ req[r].kind = "edit") =>
                /\ Cardinality(FilesOf(r)) = Len(req[r].files)
                /\ \A i \in 1..Len(req[r].files) :
                      LET fs == {f \in FilesOf(r) : f.file_name = req[r].files[i][1]} IN
                      /\ Cardinality(fs) = 1
                      /\ \A f \in fs :
                            /\ LineMapOf(f.file_content) = req[r].files[i][2]
                            /\ \E m \in MessagesOf(r) : m.sender = "ai" /\ m.id = f.message_id)
    /\ [](\A k \in 1..Len(files) :
            /\ Cardinality({i \in 1..Len(messages) : messages[i].id = files[k].message_id}) = 1
            /\ \A i \in 1..Len(messages) : messages[i].id = files[k].message_id =>
                  messages[i].sender = "ai" /\ messages[i].message_type = "edit")
    /\ [][\A r \in Requests : (Steps(r) /\ BodyOf(r).kind = "ask") => files' = files]_vars

\* An edit request with two files has been answered with success.
FileSnapshotsOwnedWitness ==
    \E r \in Requests :
        /\ Returned(r) /\ outcome[r] = "ok" /\ req[r].kind = "edit"
        /\ Len(req[r].files) = 2 /\ Cardinality(FilesOf(r)) = 2

\* The rows of a table stay, unchanged, where they are; new rows come after.
Extends(after, before) ==
    /\ Len(after) >= Len(before)
    /\ \A i \in 1..Len(before) : after[i] = before[i]

\* C14. The store only grows: no step deletes a committed conversation,
\* message or file, and no step changes a field of one.
StoreOnlyGrows ==
    [][/\ Extends(conversations', conversations)
       /\ Extends(messages', messages)
       /\ Extends(files', files)]_vars

\* Two requests have each added a turn to a store that held one, and files.
StoreOnlyGrowsWitness ==
    /\ Len(messages) >= 4
    /\ Len(files) >= 1
    /\ \E r \in Requests : Returned(r) /\ outcome[r] = "ok" /\ MessagesOf(r) # {}

\* The lines of a line map rendered "<line_number>: <line_content>", found by
\* counting the line numbers upwards from n.
RECURSIVE LinesFrom(_, _)
LinesFrom(lines, n) ==
    IF n > 6 THEN <<>>
    ELSE LET here == {i \in 1..Len(lines) : lines[i][1] = n}
         IN  (IF here = {} THEN <<>>
              ELSE << <<Str(n), ": ", lines[CHOOSE i \in here : TRUE][2]>> >>)
             \o LinesFrom(lines, n + 1)

\* The user turn of an edit request: the prompt, then the files in the order
\* supplied, each as its name followed by its lines in ascending order.
ExpectedUserTurn(body) ==
    IF body.files = <<>> THEN body.text
    ELSE body.text \o <<"\n\nFiles:\n">>
         \o Join("\n", [i \in 1..Len(body.files) |->
                 <<body.files[i][1], ":\n">>
                 \o Join("\n", LinesFrom(body.files[i][2], 0))])

\* C15. The new user turn an edit request hands to the model is the prompt
\* followed by the file block (files in the caller's order, lines ascending by
\* line number whatever the order of the keys), and the prompt alone when no
\* file is supplied.
EditPromptSerialized ==
    \A r \in Requests :
        (req[r].kind = "edit" /\ pc[r] \in {"invoke", "persist", "files"}) =>
            /\ chat_history[r] # <<>>
            /\ chat_history[r][Len(chat_history[r])] = HumanMessage(ExpectedUserTurn(req[r]))

\* An edit request whose first file lists line 2 before line 1 is at the model.
EditPromptSerializedWitness ==
    \E r \in Requests :
        /\ req[r].kind = "edit" /\ pc[r] = "persist"
        /\ req[r].files = FilesAB

\* C16. The tool_calls field of a successful edit response is null exactly
\* when the model's response carries no tool invocation; otherwise it lists
\* the model's invocations in their order, each with its tool name and its
\* arguments as the model gave them.
ToolCallsPassThrough ==
    [][\A r \in Requests :
          (pc[r] = "files" /\ pc'[r] = "exit" /\ outcome'[r] = "ok") =>
              LET calls == ai_response[r][1].tool_calls
                  out   == response'[r][1].tool_calls IN
              /\ out = None <=> calls = <<>>
              /\ calls # <<>> =>
                    /\ Len(out[1]) = Len(calls)
                    /\ \A i \in 1..Len(calls) :
                          /\ out[1][i].name = calls[i].name
                          /\ out[1][i].args = calls[i].args]_vars

\* An edit response carrying several payloads of both tools has been returned.
ToolCallsPassThroughWitness ==
    \E r \in Requests :
        /\ Returned(r) /\ outcome[r] = "ok" /\ req[r].kind = "edit"
        /\ response[r][1].tool_calls # None
        /\ Len(response[r][1].tool_calls[1]) >= 2
        /\ \E i, j \in 1..Len(response[r][1].tool_calls[1]) :
              response[r][1].tool_calls[1][i].name # response[r][1].tool_calls[1][j].name

\* C17. A request holds its own open session from entry until its handler has
\* returned or raised, whatever the exit path; the session is then eventually
\* closed, and no session is open for a request that has not arrived or that
\* has terminated.
SessionLifecycle ==
    /\ [](\A r \in Requests :
            /\ Handled(r) => session[r] = "open"
            /\ pc[r] = "idle" => session[r] = "none"
            /\ pc[r] = "done" => session[r] = "closed")
    /\ [][\A r \in Requests : Arrives(r) => session[r] = "none" /\ session'[r] = "open"]_vars
    /\ \A r \in Requests : Returned(r) ~> (pc[r] = "done" /\ session[r] = "closed")

\* A request that failed after creating its conversation has terminated.
SessionLifecycleWitness ==
    \E r \in Requests :
        /\ pc[r] = "done" /\ session[r] = "closed"
        /\ ConversationsOf(r) # {} /\ MessagesOf(r) = {}

\* Request r has been answered with success.
Succeeded(r) == Returned(r) /\ outcome[r] = "ok"

\* The turn of request r is in the store, under conversation id.
TurnStored(r, id) ==
    /\ \E m \in MessagesOf(r) : m.sender = "human" /\ m.conversation_id = id
    /\ \E m \in MessagesOf(r) : m.sender = "ai" /\ m.conversation_id = id

\* The model input of request r holds nothing that request q stored: r read
\* its history before q committed.
ReadBefore(r, q) ==
    /\ chat_history[r] # <<>>
    /\ \A k \in 1..Len(chat_history[r]) :
          chat_history[r][k].content \notin {m.content : m \in MessagesOf(q)}

\* C18. When two requests of the same persona on the same conversation have
\* both succeeded, however their steps interleaved, the store holds the human
\* and the AI message of each under that conversation.
NoLostTurns ==
    \A r, q \in Requests :
        (/\ r # q /\ Succeeded(r) /\ Succeeded(q)
         /\ req[r].kind = req[q].kind
         /\ response[r][1].conversation_id = response[q][1].conversation_id) =>
            /\ TurnStored(r, response[r][1].conversation_id)
            /\ TurnStored(q, response[q][1].conversation_id)

\* Two edit requests on one conversation have committed, the second having
\* read its history before the first committed.
NoLostTurnsWitness ==
    \E r, q \in Requests :
        /\ r # q /\ Succeeded(q) /\ pc[r] = "files"
        /\ req[r].kind = req[q].kind
        /\ conv[r][1].id = response[q][1].conversation_id
        /\ ReadBefore(r, q)
        /\ TurnStored(r, conv[r][1].id) /\ TurnStored(q, conv[r][1].id)

\* C19. Alternating history: every listing of a conversation's stored turns in
\* ascending created_at alternates human, ai, human, ai, ..., the AI turn of a
\* request coming right after the human turn of that request, also when the
\* two turns of a request carry equal timestamps.
AlternatingHistory ==
    \A id \in ConversationIds : \A msgs \in ListMessages(id) :
        \A k \in 1..Len(msgs) :
            IF k % 2 = 1
            THEN /\ messages[msgs[k]].sender = "human"
                 /\ k + 1 <= Len(msgs)
                 /\ messages[msgs[k + 1]].id = messages[msgs[k]].id + 1
            ELSE messages[msgs[k]].sender = "ai"

\* C20. Model inputs of successive requests are prefix-extending: when a
\* request assembles its model input on the conversation of the last request
\* answered with success, that input is the input of that request, then an AI
\* message with the text of its answer, then the new user turn; and the human
\* turn a request stores is the user turn it gave to the model.
ModelInputsPrefixExtending ==
    [][\A r \in Requests :
          /\ (/\ pc[r] = "history" /\ pc'[r] = "invoke"
              /\ last_turn # None
              /\ last_turn[1].conversation_id = conv[r][1].id) =>
                 chat_history'[r] = last_turn[1].input
                                    \o <<AIMessage(last_turn[1].output)>>
                                    \o <<HumanMessage(Prompt(req[r]))>>
          /\ (pc[r] = "persist" /\ Len(messages') = Len(messages) + 2) =>
                 /\ messages'[Len(messages) + 1].sender = "human"
                 /\ HumanMessage(messages'[Len(messages) + 1].content)
                        = chat_history[r][Len(chat_history[r])]]_vars
====
